---- MODULE Spec2Model ----
(***************************************************************************)
(* lazycontract/contract.py: LazyProperty descriptors, LazyContract and    *)
(* its Strict / Dynamic variants, modelled as a state machine over a small *)
(* client program (a family of contract classes) and its instances.        *)
(***************************************************************************)
EXTENDS Integers, Sequences, FiniteSets, TLC

VARIABLES propName, obj, call, last, family

vars == <<propName, obj, call, last, family>>

\* Longest source mapping (number of key/value pairs) passed to a constructor.
MaxLen == 2

-----------------------------------------------------------------------------
(* Python values.  Every value is a record of one shape:                   *)
(*   t = "none" | "int" | "str" | "map" | "obj"                            *)
(*   i = the integer (t = "int"); the text of a string (t = "str"):        *)
(*       i >= 0 is the decimal text of i, -1 is "a", -2 is "", -3 is the   *)
(*       text str() makes of a mapping or an object                        *)
(*   c = the class of a contract instance (t = "obj")                      *)
(*   s = the ordered key/value pairs of a dict (t = "map") or of an        *)
(*       instance's __dict__ (t = "obj", without _properties / _mappings)  *)

None == [t |-> "none", i |-> 0, c |-> "", s |-> <<>>]
IntV(k) == [t |-> "int", i |-> k, c |-> "", s |-> <<>>]
StrV(k) == [t |-> "str", i |-> k, c |-> "", s |-> <<>>]
MapV(pairs) == [t |-> "map", i |-> 0, c |-> "", s |-> pairs]
ObjV(cls, store) == [t |-> "obj", i |-> 0, c |-> cls, s |-> store]

\* dict operations on an ordered sequence of <<key, value>> pairs
HasKey(m, k) == \E j \in 1..Len(m) : m[j][1] = k
Lookup(m, k) == m[CHOOSE j \in 1..Len(m) : m[j][1] = k][2]
KeysOf(m) == {m[j][1] : j \in 1..Len(m)}
Put(m, k, v) ==
    IF HasKey(m, k)
    THEN LET j == CHOOSE n \in 1..Len(m) : m[n][1] = k
         IN SubSeq(m, 1, j - 1) \o << <<k, v>> >> \o SubSeq(m, j + 1, Len(m))
    ELSE Append(m, <<k, v>>)

\* bool(v): what `_obj or kwargs` tests
Truthy(v) ==
    CASE v.t = "none" -> FALSE
      [] v.t = "int" -> v.i # 0
      [] v.t = "str" -> v.i # -2
      [] v.t = "map" -> Len(v.s) > 0
      [] OTHER -> TRUE

\* hasattr(v, "items")
HasItems(v) == v.t = "map"

-----------------------------------------------------------------------------
(* The client program: property descriptors and contract classes.          *)

DefaultName == "(anonymous)"

\* LazyProperty(name, default, required, not_none, exclude_if_none) of a
\* subclass whose _type is ty ("int", "str" or a contract class)
Prop(ty, name, default, required, not_none, exclude_if_none) ==
    [type |-> ty, name |-> name, default |-> default, required |-> required,
     not_none |-> not_none, exclude_if_none |-> exclude_if_none]

Plain(ty) == Prop(ty, DefaultName, None, FALSE, FALSE, TRUE)

Descs ==
    [d \in {"PL.f", "PS.f", "PD.f"} |-> Plain("int")] @@
    [d \in {"PL.g", "PS.g", "PD.g"} |-> Prop("str", "k", None, FALSE, FALSE, FALSE)] @@
    [d \in {"Base.w"} |-> Prop("int", "ew", None, TRUE, FALSE, TRUE)] @@
    [d \in {"Der.w"} |-> Prop("int", "dw", None, FALSE, FALSE, TRUE)] @@
    [d \in {"Der.y"} |-> Prop("str", DefaultName, StrV(-1), FALSE, FALSE, TRUE)] @@
    [d \in {"Req.f"} |-> Prop("int", DefaultName, None, TRUE, FALSE, TRUE)] @@
    [d \in {"Req.g"} |-> Prop("str", "k", None, TRUE, FALSE, TRUE)] @@
    [d \in {"NN.n"} |-> Prop("int", DefaultName, None, FALSE, TRUE, TRUE)] @@
    [d \in {"NN.m"} |-> Prop("int", DefaultName, IntV(1), FALSE, TRUE, TRUE)] @@
    [d \in {"A.bField"} |-> Plain("B")] @@
    [d \in {"B.z"} |-> Prop("int", DefaultName, None, TRUE, FALSE, TRUE)] @@
    [d \in {"AL.f"} |-> Prop("int", "g", None, FALSE, FALSE, TRUE)] @@
    [d \in {"AL.g"} |-> Prop("int", "h", None, FALSE, FALSE, TRUE)] @@
    [d \in {"AL2.f"} |-> Prop("int", "g", None, FALSE, FALSE, TRUE)] @@
    [d \in {"AL2.g"} |-> Plain("int")] @@
    [d \in {"V.p"} |-> Prop("int", "_p", None, FALSE, FALSE, FALSE)] @@
    [d \in {"V.d"} |-> Prop("int", DefaultName, IntV(1), FALSE, FALSE, TRUE)]

DescIds == DOMAIN Descs

\* class -> its direct base and the LazyProperty attributes of its own __dict__
\* (in declaration order)
Class(base, decl) == [base |-> base, decl |-> decl]

Classes ==
    [c \in {"LazyContract"} |-> Class("object", <<>>)] @@
    [c \in {"StrictContract", "DynamicContract"} |-> Class("LazyContract", <<>>)] @@
    [c \in {"PL"} |-> Class("LazyContract", << <<"f", "PL.f">>, <<"g", "PL.g">> >>)] @@
    [c \in {"PS"} |-> Class("StrictContract", << <<"f", "PS.f">>, <<"g", "PS.g">> >>)] @@
    [c \in {"PD"} |-> Class("DynamicContract", << <<"f", "PD.f">>, <<"g", "PD.g">> >>)] @@
    [c \in {"Base"} |-> Class("LazyContract", << <<"w", "Base.w">> >>)] @@
    [c \in {"Der"} |-> Class("Base", << <<"w", "Der.w">>, <<"y", "Der.y">> >>)] @@
    [c \in {"Req"} |-> Class("LazyContract", << <<"f", "Req.f">>, <<"g", "Req.g">> >>)] @@
    [c \in {"NN"} |-> Class("LazyContract", << <<"n", "NN.n">>, <<"m", "NN.m">> >>)] @@
    [c \in {"A"} |-> Class("LazyContract", << <<"bField", "A.bField">> >>)] @@
    [c \in {"B"} |-> Class("LazyContract", << <<"z", "B.z">> >>)] @@
    [c \in {"AL"} |-> Class("LazyContract", << <<"f", "AL.f">>, <<"g", "AL.g">> >>)] @@
    [c \in {"AL2"} |-> Class("LazyContract", << <<"f", "AL2.f">>, <<"g", "AL2.g">> >>)] @@
    [c \in {"V"} |-> Class("LazyContract", << <<"p", "V.p">>, <<"d", "V.d">> >>)]

ClassNames == DOMAIN Classes

\* cls.__mro__ without object, most derived first
RECURSIVE Mro(_)
Mro(cls) == IF cls = "object" THEN <<>> ELSE <<cls>> \o Mro(Classes[cls].base)

\* issubclass(c, d)
IsSubclass(c, d) == \E j \in 1..Len(Mro(c)) : Mro(c)[j] = d

\* isinstance(v, ty) for ty a LazyProperty._type or a contract class
IsInstance(v, ty) ==
    CASE ty = "int" -> v.t = "int"
      [] ty = "str" -> v.t = "str"
      [] OTHER -> v.t = "obj" /\ IsSubclass(v.c, ty)

\* self._ignore_undefined_attributes, looked up along the MRO
IgnoreUndefinedAlways(cls) == TRUE

IgnoreUndefined(cls) == ~IsSubclass(cls, "StrictContract")

\* whether _populate_properties resolves to DynamicContract's override
IsDynamic(cls) == IsSubclass(cls, "DynamicContract")

\* type(self).<key>: the descriptor the class (or its nearest ancestor) declares
\* under that attribute name, "" if none
RECURSIVE ClassAttrFrom(_, _, _)
ClassAttrFrom(mro, j, key) ==
    IF j > Len(mro) THEN ""
    ELSE IF HasKey(Classes[mro[j]].decl, key) THEN Lookup(Classes[mro[j]].decl, key)
    ELSE ClassAttrFrom(mro, j + 1, key)

ClassAttr(cls, key) == ClassAttrFrom(Mro(cls), 1, key)

-----------------------------------------------------------------------------
(* Exceptions.  kind "" is "nothing raised"; path is the dotted path as the *)
(* sequence of its segments ("" is << >>, ".bField.z" is <<"bField","z">>); *)
(* fmt names the message format, arg / val what was formatted into it.      *)

NoErr == [kind |-> "", clsname |-> "", path |-> <<>>, fmt |-> "", arg |-> "", val |-> None]

\* LazyContractValidationError(that, path, msg): clsname is type(that).__name__
ValidationError(clsname, path, fmt, arg, val) ==
    [kind |-> "LazyContractValidationError", clsname |-> clsname, path |-> path,
     fmt |-> fmt, arg |-> arg, val |-> val]

\* LazyContractError("both _obj and kwargs provided")
ContractError(msg) ==
    [kind |-> "LazyContractError", clsname |-> "", path |-> <<>>, fmt |-> msg,
     arg |-> "", val |-> None]

\* a ValueError / TypeError raised by a builtin conversion of v
BuiltinError(name, v) ==
    [kind |-> "Exception", clsname |-> "", path |-> <<>>, fmt |-> name,
     arg |-> "", val |-> v]

-----------------------------------------------------------------------------
(* LazyProperty.  inst is a descriptor, names the current inst.name of      *)
(* every descriptor (discovery rewrites it), store an instance's __dict__.  *)

\* LazyProperty.validate
ValidateNoTypeCheck(inst, names, v) ==
    IF v = None /\ Descs[inst].not_none
    THEN ValidationError("LazyProperty", <<>>, "NOT_NONE_FMT", names[inst], None)
    ELSE NoErr

Validate(inst, names, v) ==
    IF v = None /\ Descs[inst].not_none
    THEN ValidationError("LazyProperty", <<>>, "NOT_NONE_FMT", names[inst], None)
    ELSE IF ~IsInstance(v, Descs[inst].type) /\ v # None
    THEN ValidationError("LazyProperty", <<names[inst]>>, "ATTR_TYPE_FMT", "", v)
    ELSE NoErr

\* LazyProperty.__get__: the value read, or the exception validate raises
PropGet(inst, names, store) ==
    LET value == IF HasKey(store, names[inst]) THEN Lookup(store, names[inst])
                 ELSE Descs[inst].default
        e == Validate(inst, names, value)
    IN [val |-> IF e = NoErr THEN value ELSE None, err |-> e]

\* LazyProperty.__set__: the __dict__ after the write, or the exception
PropSet(inst, names, store, value) ==
    LET e == Validate(inst, names, value)
    IN [store |-> IF e = NoErr THEN Put(store, names[inst], value) ELSE store,
        err |-> e]

\* LazyProperty.serialize
Serialize(inst, v) == v

\* setattr(self, key, value): through the data descriptor the class declares
\* under key, else a plain instance attribute
SetAttr(cls, names, store, key, value) ==
    IF ClassAttr(cls, key) # ""
    THEN PropSet(ClassAttr(cls, key), names, store, value)
    ELSE [store |-> Put(store, key, value), err |-> NoErr]

-----------------------------------------------------------------------------
(* LazyContract construction.  st is the state of the instance being built *)
(* and of the shared descriptors:                                          *)
(*   cls, names (inst.name of every descriptor), props (self._properties), *)
(*   mappings (self._mappings), store (self.__dict__), err (the exception  *)
(*   that ended construction, NoErr while none was raised).                *)

NotADictionary(cls, o) == ValidationError(cls, <<>>, "is not a dictionary", "", o)

\* F applied to the value of v, v evaluated once: how a statement sequence
\* hands the state one statement leaves to the next
Then(v, F(_)) == CHOOSE r \in {F(x) : x \in {v}} : TRUE

\* lines 149-172: the loop body for the j-th LazyProperty of cls.__dict__,
\* checking the source for inst.name alone
DiscoverStepNameOnly(o, cls, j, st) ==
    LET name == Classes[cls].decl[j][1]
        inst == Classes[cls].decl[j][2]
        anonymous == st.names[inst] = DefaultName
        nm == IF anonymous THEN name ELSE st.names[inst]
        absent == ~HasKey(o.s, nm)
    IN [st EXCEPT
          !.names = [@ EXCEPT ![inst] = nm],
          !.props = Put(@, name, inst),
          !.mappings = IF anonymous THEN @ ELSE Put(@, nm, name),
          !.err = IF absent /\ Descs[inst].required
                  THEN ValidationError(st.cls, <<>>, "REQUIRED_FMT", nm, o)
                  ELSE IF absent /\ Descs[inst].not_none /\ Descs[inst].default = None
                  THEN ValidationError(st.cls, <<>>, "NOT_NONE_FMT", nm, None)
                  ELSE NoErr]

\* lines 149-172: the loop body for the j-th LazyProperty of cls.__dict__
DiscoverStep(o, cls, j, st) ==
    LET name == Classes[cls].decl[j][1]
        inst == Classes[cls].decl[j][2]
        anonymous == st.names[inst] = DefaultName
        nm == IF anonymous THEN name ELSE st.names[inst]
        absent == ~HasKey(o.s, nm) /\ ~HasKey(o.s, name)
    IN [st EXCEPT
          !.names = [@ EXCEPT ![inst] = nm],
          !.props = Put(@, name, inst),
          !.mappings = IF anonymous THEN @ ELSE Put(@, nm, name),
          !.err = IF absent /\ Descs[inst].required
                  THEN ValidationError(st.cls, <<>>, "REQUIRED_FMT", nm, o)
                  ELSE IF absent /\ Descs[inst].not_none /\ Descs[inst].default = None
                  THEN ValidationError(st.cls, <<>>, "NOT_NONE_FMT", nm, None)
                  ELSE NoErr]

\* line 148: the loop over cls.__dict__.items(), ended by the first raise
RECURSIVE DiscoverFrom(_, _, _, _)
DiscoverFrom(o, cls, j, st) ==
    IF st.err # NoErr \/ j > Len(Classes[cls].decl) THEN st
    ELSE Then(DiscoverStep(o, cls, j, st), LAMBDA s : DiscoverFrom(o, cls, j + 1, s))

\* LazyContract.__discover_properties(obj, cls)
DiscoverProperties(o, cls, st) ==
    IF ~HasItems(o) THEN [st EXCEPT !.err = NotADictionary(st.cls, o)]
    ELSE DiscoverFrom(o, cls, 1, st)

\* lines 127-129: for cls in reversed(__mro__), LazyContract itself skipped;
\* j counts down the MRO from its base end
RECURSIVE DiscoverChain(_, _, _, _)
DiscoverChain(o, mro, j, st) ==
    IF st.err # NoErr \/ j < 1 THEN st
    ELSE IF mro[j] = "LazyContract" THEN DiscoverChain(o, mro, j - 1, st)
    ELSE Then(DiscoverProperties(o, mro[j], st),
              LAMBDA s : DiscoverChain(o, mro, j - 1, s))

\* lines 196-207: the exception e raised by deserialize, re-raised under key
RewrapInnerClass(cls, key, e) ==
    IF e.kind = "LazyContractValidationError"
    THEN ValidationError(e.clsname, <<key>> \o e.path, e.fmt, e.arg, e.val)
    ELSE ValidationError(cls, <<key>>, "str(e)", e.fmt, e.val)

Rewrap(cls, key, e) ==
    IF e.kind = "LazyContractValidationError"
    THEN ValidationError(cls, <<key>> \o e.path, e.fmt, e.arg, e.val)
    ELSE ValidationError(cls, <<key>>, "str(e)", e.fmt, e.val)

RECURSIVE Construct(_, _, _, _)
RECURSIVE Deserialize(_, _, _)
RECURSIVE PopulateFrom(_, _, _)

\* LazyProperty.deserialize: obj if isinstance(obj, _type) else _type(obj),
\* with int(), str() and a contract class as _type
Deserialize(inst, v, names) ==
    LET ty == Descs[inst].type
        done(x) == [val |-> x, err |-> NoErr, names |-> names]
        fail(e) == [val |-> None, err |-> e, names |-> names]
    IN IF IsInstance(v, ty) THEN done(v)
       ELSE IF ty = "int"
       THEN IF v.t = "str"
            THEN IF v.i >= 0 THEN done(IntV(v.i)) ELSE fail(BuiltinError("ValueError", v))
            ELSE fail(BuiltinError("TypeError", v))
       ELSE IF ty = "str"
       THEN IF v.t = "int" THEN done(StrV(v.i)) ELSE done(StrV(-3))
       ELSE Then(Construct(ty, v, MapV(<<>>), names),
                 LAMBDA r : [val |-> r.obj, err |-> r.err, names |-> r.names])

\* lines 193-209: deserialize the value of a declared key and setattr it
PopulateStep(key, value0, st) ==
    Then(IF value0 # None
         THEN Deserialize(Lookup(st.props, key), value0, st.names)
         ELSE [val |-> None, err |-> NoErr, names |-> st.names],
         LAMBDA d :
            IF d.err # NoErr
            THEN [st EXCEPT !.names = d.names, !.err = Rewrap(st.cls, key, d.err)]
            ELSE Then(SetAttr(st.cls, d.names, st.store, key, d.val),
                      LAMBDA w : [st EXCEPT !.names = d.names, !.store = w.store,
                                            !.err = w.err]))

\* lines 180-209: the loop over obj.items() from its j-th item on
PopulateFrom(o, j, st) ==
    IF st.err # NoErr \/ j > Len(o.s) THEN st
    ELSE LET key0 == o.s[j][1]
             key == IF HasKey(st.mappings, key0) THEN Lookup(st.mappings, key0) ELSE key0
         IN IF ~HasKey(st.props, key)
            THEN IF IgnoreUndefined(st.cls) THEN PopulateFrom(o, j + 1, st)
                 ELSE [st EXCEPT !.err =
                          ValidationError(st.cls, <<key>>, "INVALID_ATTR_FMT", key, None)]
            ELSE Then(PopulateStep(key, o.s[j][2], st),
                      LAMBDA s : PopulateFrom(o, j + 1, s))

\* LazyContract._populate_properties
PopulateProperties(o, st) ==
    IF ~HasItems(o) THEN [st EXCEPT !.err = NotADictionary(st.cls, o)]
    ELSE PopulateFrom(o, 1, st)

\* lines 259-261: setattr of every item whose key is undeclared, from the j-th on
RECURSIVE AttachFrom(_, _, _)
AttachFrom(o, j, st) ==
    IF st.err # NoErr \/ j > Len(o.s) THEN st
    ELSE IF ~HasKey(st.props, o.s[j][1]) /\ ~HasKey(st.mappings, o.s[j][1])
    THEN Then(SetAttr(st.cls, st.names, st.store, o.s[j][1], o.s[j][2]),
              LAMBDA w : AttachFrom(o, j + 1, [st EXCEPT !.store = w.store, !.err = w.err]))
    ELSE AttachFrom(o, j + 1, st)

\* DynamicContract._populate_properties
DynamicPopulateProperties(o, st) ==
    IF ~HasItems(o) THEN [st EXCEPT !.err = BuiltinError("AttributeError", o)]
    ELSE LET declared(p) == HasKey(st.props, p[1]) \/ HasKey(st.mappings, p[1])
         IN Then(PopulateProperties(MapV(SelectSeq(o.s, declared)), st),
                 LAMBDA s : AttachFrom(o, 1, s))

\* the object __init__ leaves, or the exception it raised
Built(st) ==
    [ok |-> st.err = NoErr,
     obj |-> IF st.err = NoErr THEN ObjV(st.cls, st.store) ELSE None,
     names |-> st.names, err |-> st.err]

\* LazyContract.__init__(_obj, **kwargs); names is inst.name of every descriptor
Construct(cls, _obj, kwargs, names) ==
    IF _obj # None /\ Truthy(kwargs)
    THEN [ok |-> FALSE, obj |-> None, names |-> names,
          err |-> ContractError("both _obj and kwargs provided")]
    ELSE LET src == IF Truthy(_obj) THEN _obj ELSE kwargs
             st0 == [cls |-> cls, names |-> names, props |-> <<>>, mappings |-> <<>>,
                     store |-> <<>>, err |-> NoErr]
         IN Then(DiscoverChain(src, Mro(cls), Len(Mro(cls)), st0),
                 LAMBDA st1 :
                    IF st1.err # NoErr THEN Built(st1)
                    ELSE IF IsDynamic(cls)
                    THEN Then(DynamicPopulateProperties(src, st1), Built)
                    ELSE Then(PopulateProperties(src, st1), Built))

-----------------------------------------------------------------------------
(* A constructed instance: o = ObjV(cls, __dict__).  self._properties is    *)
(* what discovery registered, which depends on the class alone.             *)

\* self._properties after __init__: line 150 applied along the reversed MRO
\* (a redeclared identifier keeps its position and takes the later descriptor)
RECURSIVE PropertiesFrom(_, _, _)
PropertiesFrom(mro, j, props) ==
    IF j < 1 THEN props
    ELSE LET decl == Classes[mro[j]].decl
             reg[n \in 0..Len(decl)] ==
                 IF n = 0 THEN props ELSE Put(reg[n - 1], decl[n][1], decl[n][2])
         IN PropertiesFrom(mro, j - 1, reg[Len(decl)])

Properties(cls) == PropertiesFrom(Mro(cls), Len(Mro(cls)), <<>>)

\* getattr(self, name) for a declared property: the class's descriptor __get__
GetAttr(o, name, names) == PropGet(ClassAttr(o.c, name), names, o.s)

\* prop.name.startswith("_")
StartsWithUnderscore(name) == name \in {"_p"}

\* LazyContract.to_dict: the dict, or the exception a property read raises
ToDictByIdentifier(o, names) ==
    LET props == Properties(o.c)
        acc[n \in 0..Len(props)] ==
            IF n = 0 THEN [map |-> <<>>, err |-> NoErr]
            ELSE IF acc[n - 1].err # NoErr THEN acc[n - 1]
            ELSE LET name == props[n][1]
                     prop == props[n][2]
                     g == GetAttr(o, name, names)
                 IN IF g.err # NoErr THEN [map |-> <<>>, err |-> g.err]
                    ELSE IF ~StartsWithUnderscore(names[prop])
                            /\ (g.val # None \/ ~Descs[prop].exclude_if_none)
                    THEN [map |-> Put(acc[n - 1].map, name, Serialize(prop, g.val)),
                          err |-> NoErr]
                    ELSE acc[n - 1]
    IN [ok |-> acc[Len(props)].err = NoErr, map |-> MapV(acc[Len(props)].map),
        err |-> acc[Len(props)].err]

ToDict(o, names) ==
    LET props == Properties(o.c)
        acc[n \in 0..Len(props)] ==
            IF n = 0 THEN [map |-> <<>>, err |-> NoErr]
            ELSE IF acc[n - 1].err # NoErr THEN acc[n - 1]
            ELSE LET name == props[n][1]
                     prop == props[n][2]
                     g == GetAttr(o, name, names)
                 IN IF g.err # NoErr THEN [map |-> <<>>, err |-> g.err]
                    ELSE IF ~StartsWithUnderscore(names[prop])
                            /\ (g.val # None \/ ~Descs[prop].exclude_if_none)
                    THEN [map |-> Put(acc[n - 1].map, names[prop], Serialize(prop, g.val)),
                          err |-> NoErr]
                    ELSE acc[n - 1]
    IN [ok |-> acc[Len(props)].err = NoErr, map |-> MapV(acc[Len(props)].map),
        err |-> acc[Len(props)].err]

RECURSIVE PyEq(_, _, _)
RECURSIVE ContractEq(_, _, _)
RECURSIVE AllPairsEq(_, _, _, _)

\* all(map(lambda x: x[0] == x[1], zip(self.__iter_properties(),
\* other.__iter_properties()))) from the j-th pair on: "True", "False", or
\* "Raise" when a property read raises.  The tuples compared are
\* (name, prop, value); prop compares by identity.
AllPairsEq(a, b, j, names) ==
    LET pa == Properties(a.c)
        pb == Properties(b.c)
    IN IF j > Len(pa) \/ j > Len(pb) THEN "True"
       ELSE LET ga == GetAttr(a, pa[j][1], names)
                gb == GetAttr(b, pb[j][1], names)
            IN IF ga.err # NoErr \/ gb.err # NoErr THEN "Raise"
               ELSE IF pa[j][1] # pb[j][1] \/ pa[j][2] # pb[j][2] THEN "False"
               ELSE LET e == PyEq(ga.val, gb.val, names)
                    IN IF e = "True" THEN AllPairsEq(a, b, j + 1, names) ELSE e

\* LazyContract.__eq__(self, other)
ContractEqAnyClass(a, other, names) ==
    IF other.t = "obj" THEN AllPairsEq(a, other, 1, names) ELSE "False"

ContractEq(a, other, names) ==
    IF other.t = "obj" /\ IsSubclass(other.c, a.c)
    THEN AllPairsEq(a, other, 1, names)
    ELSE "False"

\* x == y as Python evaluates it: the reflected __eq__ of y goes first when
\* type(y) is a proper subclass of type(x); LazyContract.__eq__ never returns
\* NotImplemented; ints, strings and None compare by value
PyEq(x, y, names) ==
    IF x.t = "obj" /\ y.t = "obj" /\ y.c # x.c /\ IsSubclass(y.c, x.c)
    THEN ContractEq(y, x, names)
    ELSE IF x.t = "obj" THEN ContractEq(x, y, names)
    ELSE IF y.t = "obj" THEN ContractEq(y, x, names)
    ELSE IF x.t = "map" /\ y.t = "map"
    THEN IF KeysOf(x.s) = KeysOf(y.s)
            /\ \A k \in KeysOf(x.s) : Lookup(x.s, k) = Lookup(y.s, k)
         THEN "True" ELSE "False"
    ELSE IF x = y THEN "True" ELSE "False"

-----------------------------------------------------------------------------
(* Inputs.                                                                 *)

\* the client programs: the classes one behaviour constructs
Families ==
    { {"LazyContract", "StrictContract", "DynamicContract"}, {"PL", "PS", "PD"},
      {"Base", "Der"}, {"Req", "NN"}, {"A", "B"}, {"AL", "AL2"}, {"V"} }

\* <<identifier, descriptor>> declared along the MRO of cls, overridden included
ChainDescs(cls) ==
    UNION {{Classes[Mro(cls)[j]].decl[n] : n \in 1..Len(Classes[Mro(cls)[j]].decl)} :
              j \in 1..Len(Mro(cls))}

Identifiers(cls) == {p[1] : p \in ChainDescs(cls)}

\* source keys tried on cls: its identifiers, its explicit external names and
\* the undeclared key "x"
ClassKeys(cls) ==
    Identifiers(cls) \cup ({Descs[p[2]].name : p \in ChainDescs(cls)} \ {DefaultName})
    \cup {"x"}

FieldVals == {None, IntV(1), StrV(1), StrV(-1)}

NestedVals ==
    {None, IntV(0), IntV(1), MapV(<<>>), MapV(<< <<"z", IntV(1)>> >>),
     MapV(<< <<"z", StrV(-1)>> >>), MapV(<< <<"x", IntV(1)>> >>)}

Scalars == {IntV(0), IntV(1), StrV(-2), StrV(-1)}

ValsFor(k) == IF k = "bField" THEN NestedVals ELSE FieldVals

\* dicts of n items over the keys of cls, in every insertion order
RECURSIVE DictsOfLen(_, _)
DictsOfLen(cls, n) ==
    IF n = 0 THEN {<<>>}
    ELSE UNION {UNION {{Append(m, <<k, v>>) : v \in ValsFor(k)} :
                          k \in ClassKeys(cls) \ KeysOf(m)} :
                   m \in DictsOfLen(cls, n - 1)}

Dicts(cls, maxlen) == UNION {DictsOfLen(cls, n) : n \in 0..maxlen}

\* the arguments (_obj, kwargs) of a constructor call: a dict, named arguments,
\* a value that is no dict, or both a value and named arguments
CallArgs(cls) ==
    {<<MapV(m), MapV(<<>>)>> : m \in Dicts(cls, MaxLen)}
    \cup {<<None, MapV(m)>> : m \in Dicts(cls, MaxLen - 1)}
    \cup {<<v, MapV(<<>>)>> : v \in Scalars}
    \cup {<<v, MapV(m)>> : v \in {IntV(0), MapV(<<>>)}, m \in DictsOfLen(cls, 1)}

\* values assigned to a property after construction
WriteVals(k) ==
    IF k = "bField" THEN NestedVals \cup {ObjV("B", << <<"z", IntV(1)>> >>)}
    ELSE FieldVals

-----------------------------------------------------------------------------
(* State.                                                                  *)
(*   family    the classes of the client program                           *)
(*   propName  inst.name of every descriptor (shared by all instances)     *)
(*   obj       the instances held: obj.a, obj.b (None while there is none) *)
(*   call      the constructor call that made obj.a, remembered until a    *)
(*             field of obj.a is read or written or obj.a is serialized    *)
(*   last      the last operation and its outcome                          *)

Slots == {"a", "b"}

InitNames == [d \in DescIds |-> Descs[d].name]

NoCall == [cls |-> "", arg |-> None, kwargs |-> MapV(<<>>), names |-> InitNames]

Outcome(op, key, other, val, ok, err, ret, res, pre) ==
    [op |-> op, key |-> key, other |-> other, val |-> val, ok |-> ok, err |-> err,
     ret |-> ret, res |-> res, pre |-> pre]

Init ==
    /\ family \in Families
    /\ propName = InitNames
    /\ obj = [s \in Slots |-> None]
    /\ call = NoCall
    /\ last = Outcome("init", "", "", None, TRUE, NoErr, None, "", None)

\* a = cls(_obj, **kwargs), where no instance is held
New(cls, _obj, kwargs) ==
    /\ last.op \in {"init", "del"}
    /\ \E r \in {Construct(cls, _obj, kwargs, propName)} :
          /\ propName' = r.names
          /\ obj' = [obj EXCEPT !.a = r.obj]
          /\ call' = [cls |-> cls, arg |-> _obj, kwargs |-> kwargs, names |-> propName]
          /\ last' = Outcome("construct", "", "", None, r.ok, r.err, None, "", None)
    /\ UNCHANGED family

\* del a: the instance is dropped; the descriptors keep their names
Del ==
    /\ last.op \notin {"init", "del"}
    /\ obj' = [obj EXCEPT !.a = None]
    /\ call' = NoCall
    /\ last' = Outcome("del", "", "", None, TRUE, NoErr, None, "", None)
    /\ UNCHANGED <<propName, family>>

\* a.<name> = v for a declared property
Write(name, v) ==
    /\ obj.a # None
    /\ \E w \in {SetAttr(obj.a.c, propName, obj.a.s, name, v)} :
          /\ obj' = [obj EXCEPT !.a = ObjV(obj.a.c, w.store)]
          /\ last' = Outcome("write", name, "", v, w.err = NoErr, w.err, None, "", obj.a)
    /\ call' = NoCall
    /\ UNCHANGED <<propName, family>>

\* a.<name> for a declared property
Read(name) ==
    /\ obj.a # None
    /\ \E g \in {GetAttr(obj.a, name, propName)} :
          last' = Outcome("read", name, "", None, g.err = NoErr, g.err, g.val, "", obj.a)
    /\ call' = NoCall
    /\ UNCHANGED <<propName, obj, family>>

\* a.to_dict()
Dump ==
    /\ obj.a # None
    /\ \E d \in {ToDict(obj.a, propName)} :
          last' = Outcome("to_dict", "", "", None, d.ok, d.err, d.map, "", obj.a)
    /\ call' = NoCall
    /\ UNCHANGED <<propName, obj, family>>

\* type(a)(a.to_dict()) == a
RoundTrip ==
    /\ obj.a # None
    /\ \E d \in {ToDict(obj.a, propName)} :
          IF ~d.ok
          THEN /\ last' = Outcome("roundtrip", "", "", None, FALSE, d.err, None, "", obj.a)
               /\ UNCHANGED propName
          ELSE \E r \in {Construct(obj.a.c, d.map, MapV(<<>>), propName)} :
                  /\ propName' = r.names
                  /\ last' = Outcome("roundtrip", "", "", None, r.ok, r.err, r.obj,
                                     IF r.ok THEN PyEq(r.obj, obj.a, r.names) ELSE "",
                                     obj.a)
    /\ UNCHANGED <<obj, call, family>>

\* the guards stand before the quantifiers, as the call sites decide whether an
\* operation happens before its arguments are evaluated
Next ==
    \/ /\ last.op \in {"init", "del"}
       /\ \E cls \in family : \E args \in CallArgs(cls) : New(cls, args[1], args[2])
    \/ Del
    \/ /\ obj.a # None
       /\ \E name \in Identifiers(obj.a.c) : \E v \in WriteVals(name) : Write(name, v)
    \/ /\ obj.a # None
       /\ \E name \in Identifiers(obj.a.c) : Read(name)
    \/ Dump
    \/ RoundTrip

Spec == Init /\ [][Next]_vars

-----------------------------------------------------------------------------
(* Two instances side by side, for ==.                                     *)

\* Longest source mapping of the instances that are compared.
MaxEqLen == 1

Idle == Outcome("idle", "", "", None, TRUE, NoErr, None, "", None)

\* <slot> = cls(m), where the slot holds no instance
Build(slot, cls, m) ==
    /\ obj[slot] = None
    /\ \E r \in {Construct(cls, MapV(m), MapV(<<>>), propName)} :
          /\ r.ok
          /\ propName' = r.names
          /\ obj' = [obj EXCEPT ![slot] = r.obj]
    /\ last' = Idle
    /\ UNCHANGED <<call, family>>

\* <slot>.<name> = v for a declared property, where the value is accepted
Assign(slot, name, v) ==
    /\ obj[slot] # None
    /\ \E w \in {SetAttr(obj[slot].c, propName, obj[slot].s, name, v)} :
          /\ w.err = NoErr
          /\ obj' = [obj EXCEPT ![slot] = ObjV(obj[slot].c, w.store)]
    /\ last' = Idle
    /\ UNCHANGED <<propName, call, family>>

\* <x> == <y>
Compare(x, y) ==
    /\ obj[x] # None /\ obj[y] # None
    /\ last' = Outcome("compare", x, y, None, TRUE, NoErr, None,
                       PyEq(obj[x], obj[y], propName), None)
    /\ UNCHANGED <<propName, obj, call, family>>

NextEq ==
    \/ \E slot \in Slots :
          /\ obj[slot] = None
          /\ \E cls \in family : \E m \in Dicts(cls, MaxEqLen) : Build(slot, cls, m)
    \/ \E slot \in Slots :
          /\ obj[slot] # None
          /\ \E name \in Identifiers(obj[slot].c) : \E v \in WriteVals(name) :
                Assign(slot, name, v)
    \* the left operand is a: the slots are interchangeable, b == a is a == b of
    \* the state that holds the two instances the other way round
    \/ \E y \in Slots : Compare("a", y)

SpecEq == Init /\ [][NextEq]_vars

-----------------------------------------------------------------------------
(* Properties.                                                             *)

\* the last constructor call was given a dict, or named arguments alone
FromMapping ==
    /\ call.cls # ""
    /\ \/ call.arg = None
       \/ call.arg.t = "map" /\ Len(call.kwargs.s) = 0

\* the dict that call was given
Source == IF call.arg = None THEN call.kwargs ELSE call.arg

\* m without key k
Without(m, k) == LET keep(p) == p[1] # k IN MapV(SelectSeq(m.s, keep))

\* the last constructor call repeated on the same descriptors, key k left out
CallWithout(k) ==
    IF call.arg = None
    THEN Construct(call.cls, None, Without(call.kwargs, k), call.names)
    ELSE Construct(call.cls, Without(call.arg, k), call.kwargs, call.names)

\* the external name discovery gives the descriptor declared as p = <<identifier, inst>>
ExternalName(p) == IF Descs[p[2]].name = DefaultName THEN p[1] ELSE Descs[p[2]].name

\* the descriptor declared as p finds neither its name nor its identifier in m
Absent(p, m) == ~HasKey(m.s, ExternalName(p)) /\ ~HasKey(m.s, p[1])

\* the absence of p's key is an error
MustBePresent(p) ==
    Descs[p[2]].required \/ (Descs[p[2]].not_none /\ Descs[p[2]].default = None)

\* the error is one raised by the absence checks of discovery
IsAbsenceError(e, cls) ==
    /\ e.kind = "LazyContractValidationError"
    /\ e.clsname = cls
    /\ e.path = <<>>
    /\ e.fmt \in {"REQUIRED_FMT", "NOT_NONE_FMT"}

\* v is None where None is allowed, or of the property's type
Conforms(inst, v) ==
    \/ v = None /\ ~Descs[inst].not_none
    \/ v # None /\ IsInstance(v, Descs[inst].type)

\* every value m gives for a key of cls is None or of the property's type
WellTyped(cls, m) ==
    \A j \in 1..Len(m.s) : \A p \in ChainDescs(cls) :
        (m.s[j][1] = p[1] \/ m.s[j][1] = ExternalName(p))
            => (m.s[j][2] = None \/ IsInstance(m.s[j][2], Descs[p[2]].type))

\* C1: an instance built from a well-typed mapping M equals the instance built
\* again from its to_dict(), for every field configuration.
RoundTripLaw ==
    (last.op = "roundtrip" /\ FromMapping /\ WellTyped(call.cls, Source))
        => (last.ok /\ last.res = "True")

\* the properties of cls whose type is a contract class
NestedProps(cls) == {p \in ChainDescs(cls) : Descs[p[2]].type \in ClassNames}

\* the last call gave property p (of a contract type) a mapping that lacks the
\* required property q of that type
NestedRequiredMissing(p, q) ==
    /\ Descs[q[2]].required
    /\ HasKey(Source.s, p[1])
    /\ Lookup(Source.s, p[1]).t = "map"
    /\ Absent(q, Lookup(Source.s, p[1]))

UndeclaredKeys(cls, m) ==
    KeysOf(m.s) \ (Identifiers(cls) \cup {ExternalName(p) : p \in ChainDescs(cls)})

\* the Lenient class with the declarations of a Dynamic class
LenientTwin(cls) == IF cls = "PD" THEN "PL" ELSE "LazyContract"

\* C3: a source that is valid but for one undeclared key x fails a Strict
\* contract with path .x and a message naming x; builds the Lenient contract
\* exactly as without x; builds the Dynamic contract with the declared fields of
\* the Lenient one and x holding its raw value.
UndeclaredKeyPolicy ==
    (last.op = "construct" /\ FromMapping
        /\ Cardinality(UndeclaredKeys(call.cls, Source)) = 1)
    => LET x == CHOOSE k \in UndeclaredKeys(call.cls, Source) : TRUE
           base == CallWithout(x)
           twin == Construct(LenientTwin(call.cls), Source, MapV(<<>>), propName)
       IN base.ok =>
            IF IsSubclass(call.cls, "StrictContract")
            THEN /\ ~last.ok
                 /\ last.err = ValidationError(call.cls, <<x>>, "INVALID_ATTR_FMT", x, None)
            ELSE IF IsSubclass(call.cls, "DynamicContract")
            THEN /\ last.ok
                 /\ HasKey(obj.a.s, x)
                 /\ Lookup(obj.a.s, x) = Lookup(Source.s, x)
                 /\ twin.ok
                 /\ \A name \in Identifiers(call.cls) :
                       GetAttr(obj.a, name, propName).val
                           = GetAttr(twin.obj, name, twin.names).val
                 /\ \A name \in Identifiers(call.cls) :
                       GetAttr(obj.a, name, propName) = GetAttr(base.obj, name, base.names)
            ELSE /\ last.ok
                 /\ obj.a = base.obj
                 /\ ~HasKey(obj.a.s, x)

UndeclaredKeyWitness ==
    /\ last.op = "construct" /\ FromMapping /\ call.cls = "PD" /\ last.ok
    /\ UndeclaredKeys("PD", Source) = {"x"}
    /\ HasKey(obj.a.s, "x") /\ HasKey(obj.a.s, "f")
    /\ Lookup(obj.a.s, "x") = StrV(1)

\* C4: a == b exactly when a and b are of the same concrete class and every
\* declared field reads the same value in both.
EqualityIff ==
    last.op = "compare" =>
        LET a == obj[last.key]
            b == obj[last.other]
        IN last.res = "True"
             <=> /\ a.c = b.c
                 /\ \A name \in Identifiers(a.c) :
                       /\ GetAttr(a, name, propName).err = NoErr
                       /\ GetAttr(b, name, propName).err = NoErr
                       /\ GetAttr(a, name, propName).val = GetAttr(b, name, propName).val

EqualityWitness ==
    /\ last.op = "compare"
    /\ obj[last.key].c = "Base" /\ obj[last.other].c = "Der"
    /\ GetAttr(obj[last.key], "w", propName).val = IntV(1)
    /\ GetAttr(obj[last.other], "w", propName).val = IntV(1)
    /\ last.res = "False"

\* C5: a source value that is neither None nor a mapping, falsy ones included,
\* is rejected with the "not a dictionary" validation error.
NotAMappingRejected ==
    (last.op = "construct" /\ call.arg # None /\ ~HasItems(call.arg)
        /\ Len(call.kwargs.s) = 0)
    => /\ ~last.ok
       /\ last.err.kind = "LazyContractValidationError"
       /\ last.err.fmt = "is not a dictionary"

\* the declarations of cls in the order discovery meets them
RECURSIVE DiscoveryOrderFrom(_, _)
DiscoveryOrderFrom(mro, j) ==
    IF j < 1 THEN <<>> ELSE Classes[mro[j]].decl \o DiscoveryOrderFrom(mro, j - 1)

DiscoveryOrder(cls) == DiscoveryOrderFrom(Mro(cls), Len(Mro(cls)))

\* positions in discovery order of the declarations whose absence check fails
FailingAt(cls, m) ==
    {j \in 1..Len(DiscoveryOrder(cls)) :
        Absent(DiscoveryOrder(cls)[j], m) /\ MustBePresent(DiscoveryOrder(cls)[j])}

\* absence that is no error never fails construction
AbsenceTolerated ==
    (last.op = "construct" /\ FromMapping /\ FailingAt(call.cls, Source) = {})
        => ~IsAbsenceError(last.err, call.cls)

\* C6 (as stated): a required field absent from the source fails construction
\* with a root-path validation error whose message names that field; absence of
\* a field that is not required (and nullable or defaulted) never fails it.
RequiredFieldNamed ==
    /\ (last.op = "construct" /\ FromMapping)
        => \A p \in ChainDescs(call.cls) :
              (Descs[p[2]].required /\ Absent(p, Source))
                => /\ ~last.ok
                   /\ IsAbsenceError(last.err, call.cls)
                   /\ last.err.fmt = "REQUIRED_FMT"
                   /\ last.err.arg = ExternalName(p)
    /\ AbsenceTolerated

\* C6 (amended): a required field absent from the source fails construction
\* with a root-path validation error; the message names the first field in
\* discovery order that is absent and required (or not-None without default),
\* which is that field when none comes before it; absence of a field that is
\* not required (and nullable or defaulted) never fails it.
RequiredFieldFailFast ==
    /\ (last.op = "construct" /\ FromMapping /\ FailingAt(call.cls, Source) # {})
        => LET j == CHOOSE n \in FailingAt(call.cls, Source) :
                       \A k \in FailingAt(call.cls, Source) : n <= k
               p == DiscoveryOrder(call.cls)[j]
           IN /\ ~last.ok
              /\ IsAbsenceError(last.err, call.cls)
              /\ last.err.fmt = IF Descs[p[2]].required THEN "REQUIRED_FMT"
                                ELSE "NOT_NONE_FMT"
              /\ last.err.arg = ExternalName(p)
    /\ AbsenceTolerated

RequiredFieldWitness ==
    /\ last.op = "construct" /\ FromMapping /\ call.cls = "Req"
    /\ HasKey(Source.s, "f")
    /\ Absent(<<"g", "Req.g">>, Source)
    /\ ~last.ok
    /\ last.err.arg = "k"

\* the pairs to_dict must hold for the instance o
ExpectedPairs(o) ==
    {<<propName[ClassAttr(o.c, name)],
       Serialize(ClassAttr(o.c, name), GetAttr(o, name, propName).val)>> :
        name \in {n \in Identifiers(o.c) :
                    /\ ~StartsWithUnderscore(propName[ClassAttr(o.c, n)])
                    /\ \/ GetAttr(o, n, propName).val # None
                       \/ ~Descs[ClassAttr(o.c, n)].exclude_if_none}}

\* C7: to_dict holds exactly one pair (external name -> serialized value) per
\* declared field, but for fields that are None with exclude_if_none and fields
\* whose external name starts with "_"; it holds no other key.
SerializationRule ==
    (last.op = "to_dict" /\ last.ok)
        => /\ {last.ret.s[j] : j \in 1..Len(last.ret.s)} = ExpectedPairs(obj.a)
           /\ Len(last.ret.s) = Cardinality(ExpectedPairs(obj.a))

SerializationWitness ==
    /\ last.op = "to_dict" /\ last.ok /\ obj.a.c = "PL"
    /\ ~HasKey(obj.a.s, "f") /\ ~HasKey(obj.a.s, "k")
    /\ last.ret.s = << <<"k", None>> >>

\* C8: a write stores its value exactly when the value conforms to the
\* property (None where allowed, else of its type); a rejected write raises a
\* validation error and leaves the instance as it was; every value a read
\* returns conforms.
ValidatedStore ==
    /\ last.op = "write" =>
          LET inst == ClassAttr(last.pre.c, last.key)
          IN /\ last.ok <=> Conforms(inst, last.val)
             /\ last.ok => obj.a.s = Put(last.pre.s, propName[inst], last.val)
             /\ ~last.ok => /\ obj.a = last.pre
                            /\ last.err.kind = "LazyContractValidationError"
    /\ (last.op = "read" /\ last.ok)
          => Conforms(ClassAttr(obj.a.c, last.key), last.ret)

ValidatedStoreWitness ==
    /\ last.op = "write" /\ ~last.ok
    /\ Len(obj.a.s) > 0
    /\ last.val # None

\* C9: construction of a derived type goes by the derived descriptor of a
\* redeclared identifier alone: absence errors come from the descriptors the
\* class ends up with, and only their external names are remapped.
DerivedWins ==
    (last.op = "construct" /\ FromMapping)
    => /\ IsAbsenceError(last.err, call.cls)
          => \E name \in Identifiers(call.cls) :
                LET p == <<name, ClassAttr(call.cls, name)>>
                IN Absent(p, Source) /\ MustBePresent(p)
                   /\ last.err.arg = ExternalName(p)
       /\ (last.ok /\ ~IsDynamic(call.cls))
          => \A k \in KeysOf(Source.s) :
                (k \notin Identifiers(call.cls)
                 /\ \A name \in Identifiers(call.cls) :
                        k # ExternalName(<<name, ClassAttr(call.cls, name)>>))
                => obj.a = CallWithout(k).obj

\* C10: a successful write to one field leaves what every other field reads
\* unchanged, and a source key that is a field's identifier populates that field.
FieldIndependence ==
    /\ (last.op = "write" /\ last.ok)
          => \A name \in Identifiers(obj.a.c) \ {last.key} :
                GetAttr(last.pre, name, propName) = GetAttr(obj.a, name, propName)
    /\ (last.op = "construct" /\ FromMapping /\ last.ok /\ Len(Source.s) = 1)
          => \A name \in Identifiers(call.cls) :
                (Source.s[1][1] = name
                 /\ Conforms(ClassAttr(call.cls, name), Source.s[1][2]))
                => GetAttr(obj.a, name, propName).val = Source.s[1][2]

====
